---- MODULE Spec2Model ----
(***************************************************************************)
(* Model of examples/scripts/ecdh_drive_key.ts: two ECDH key pairs are     *)
(* generated, a symmetric AES-GCM key is derived in each direction, the    *)
(* fixed message is encrypted under Alice's derived key and decrypted      *)
(* under Bob's.                                                            *)
(*                                                                         *)
(* The script is a linear sequence of statements with top-level awaits;    *)
(* each statement is one action.  A rejected promise at a top-level await  *)
(* is an uncaught error that ends module evaluation.                       *)
(*                                                                         *)
(* The cryptographic provider (crypto.subtle) is outside the repository.   *)
(* It is modelled by its Web Crypto contract over a small group:           *)
(*   - ECDH over a prime-order group (Diffie-Hellman in the subgroup of    *)
(*     order 11 of the integers modulo 23) standing for the curve P-256;   *)
(*   - AES-GCM as a counter-mode keystream XORed onto the plaintext, with  *)
(*     an authentication tag that is an ideal MAC of (key, iv, ciphertext):*)
(*     two tags are equal exactly when those three inputs are equal.       *)
(* Text encoding (TextEncoder / TextDecoder) is modelled byte for byte on  *)
(* UTF-16 code units and UTF-8 bytes.                                      *)
(***************************************************************************)
EXTENDS Integers, Sequences, FiniteSets

VARIABLES pc, AliceKey, BobKey, AliceSymmetricKey, BobSymmetricKey, iv,
          encryptedData, decryptedText, stdout, calls, uncaught, h

vars == <<pc, AliceKey, BobKey, AliceSymmetricKey, BobSymmetricKey, iv,
          encryptedData, decryptedText, stdout, calls, uncaught, h>>

(***************************************************************************)
(* Bounds of the model.                                                    *)
(***************************************************************************)
\* private scalars are drawn from 1..MaxPriv (below the group order)
MaxPriv == 3
\* the random bytes of the IV that vary are drawn from 0..MaxIvByte
MaxIvByte == 1
\* longest plaintext (in UTF-16 code units) given to encryptMessage
MaxLen == 2

(***************************************************************************)
(* Values: an unset const is <<>>, a set one <<v>>; a promise settles to   *)
(* Ok(v) or Err(name).                                                     *)
(***************************************************************************)
Some(v) == <<v>>
IsSet(x) == x # <<>>
Get(x) == x[1]
Ok(v) == [ok |-> TRUE, value |-> v]
Err(e) == [ok |-> FALSE, error |-> e]

(***************************************************************************)
(* const data = 'Hello, Deno 2.0!'  as UTF-16 code units.                  *)
(***************************************************************************)
data == <<72, 101, 108, 108, 111, 44, 32, 68, 101, 110, 111, 32, 50, 46, 48, 33>>

(***************************************************************************)
(* TextEncoder.encode: UTF-16 code units to UTF-8 bytes.  A surrogate pair *)
(* is one scalar; a lone surrogate is replaced by U+FFFD.                  *)
(***************************************************************************)
IsHighSurrogate(c) == c >= 55296 /\ c <= 56319
IsLowSurrogate(c) == c >= 56320 /\ c <= 57343

Utf8OfScalar(cp) ==
    IF cp < 128 THEN <<cp>>
    ELSE IF cp < 2048 THEN <<192 + (cp \div 64), 128 + (cp % 64)>>
    ELSE IF cp < 65536
         THEN <<224 + (cp \div 4096), 128 + ((cp \div 64) % 64), 128 + (cp % 64)>>
    ELSE <<240 + (cp \div 262144), 128 + ((cp \div 4096) % 64),
           128 + ((cp \div 64) % 64), 128 + (cp % 64)>>

RECURSIVE encoder_encode(_)
encoder_encode(s) ==
    IF s = <<>> THEN <<>>
    ELSE LET c == Head(s) IN
         IF IsHighSurrogate(c) /\ Len(s) >= 2 /\ IsLowSurrogate(s[2])
         THEN Utf8OfScalar(65536 + (c - 55296) * 1024 + (s[2] - 56320))
                  \o encoder_encode(Tail(Tail(s)))
         ELSE IF IsHighSurrogate(c) \/ IsLowSurrogate(c)
         THEN Utf8OfScalar(65533) \o encoder_encode(Tail(s))
         ELSE Utf8OfScalar(c) \o encoder_encode(Tail(s))

(***************************************************************************)
(* TextDecoder.decode with the constructor's defaults (utf-8, fatal false, *)
(* ignoreBOM false): a leading byte order mark EF BB BF is dropped, an     *)
(* ill-formed sequence decodes to U+FFFD.                                  *)
(***************************************************************************)
Utf16OfScalar(cp) ==
    IF cp < 65536 THEN <<cp>>
    ELSE <<55296 + ((cp - 65536) \div 1024), 56320 + ((cp - 65536) % 1024)>>

SubSeqFrom(b, i) == SubSeq(b, i, Len(b))
IsCont(b, i, lo, hi) == Len(b) >= i /\ b[i] >= lo /\ b[i] <= hi

RECURSIVE Utf8Decode(_)
Utf8Decode(b) ==
    IF b = <<>> THEN <<>>
    ELSE LET b1 == b[1]
             lo == IF b1 = 224 THEN 160 ELSE IF b1 = 240 THEN 144 ELSE 128
             hi == IF b1 = 237 THEN 159 ELSE IF b1 = 244 THEN 143 ELSE 191
             need == IF b1 >= 194 /\ b1 <= 223 THEN 1
                     ELSE IF b1 >= 224 /\ b1 <= 239 THEN 2
                     ELSE IF b1 >= 240 /\ b1 <= 244 THEN 3 ELSE 0
         IN IF b1 < 128 THEN <<b1>> \o Utf8Decode(Tail(b))
            ELSE IF need = 0 \/ ~IsCont(b, 2, lo, hi)
            THEN <<65533>> \o Utf8Decode(Tail(b))
            ELSE IF need = 1
            THEN Utf16OfScalar((b1 - 192) * 64 + (b[2] - 128))
                     \o Utf8Decode(SubSeqFrom(b, 3))
            ELSE IF ~IsCont(b, 3, 128, 191)
            THEN <<65533>> \o Utf8Decode(SubSeqFrom(b, 3))
            ELSE IF need = 2
            THEN Utf16OfScalar((b1 - 224) * 4096 + (b[2] - 128) * 64 + (b[3] - 128))
                     \o Utf8Decode(SubSeqFrom(b, 4))
            ELSE IF ~IsCont(b, 4, 128, 191)
            THEN <<65533>> \o Utf8Decode(SubSeqFrom(b, 4))
            ELSE Utf16OfScalar((b1 - 240) * 262144 + (b[2] - 128) * 4096
                               + (b[3] - 128) * 64 + (b[4] - 128))
                     \o Utf8Decode(SubSeqFrom(b, 5))


\* Variant: the decoder constructed as new TextDecoder('utf-16le').
RECURSIVE Utf16leDecode(_)
Utf16leDecode(b) ==
    IF Len(b) = 0 THEN <<>>
    ELSE IF Len(b) = 1 THEN <<65533>>
    ELSE <<b[1] + 256 * b[2]>> \o Utf16leDecode(SubSeqFrom(b, 3))

decoder_decode_Utf16le(b) == Utf16leDecode(b)

decoder_decode(b) ==
    Utf8Decode(IF Len(b) >= 3 /\ SubSeq(b, 1, 3) = <<239, 187, 191>>
               THEN SubSeqFrom(b, 4) ELSE b)

(***************************************************************************)
(* The provider's curve, namedCurve: 'P-256': a group of prime order q     *)
(* generated by g modulo p.  A private key is a scalar d in 1..q-1, its    *)
(* public key the group element g^d.                                       *)
(***************************************************************************)
P256 == [p |-> 23, g |-> 2, q |-> 11]

RECURSIVE ModExp(_, _, _)
ModExp(b, e, m) == IF e = 0 THEN 1 % m ELSE (b * ModExp(b, e - 1, m)) % m

PrivateScalars == 1..MaxPriv

\* crypto.subtle.generateKey({name: 'ECDH', namedCurve}, extractable, usages)
\* with the scalar d the provider's random source drew.  The private key
\* keeps the usages asked for; an ECDH public key has none and is always
\* extractable.
SubtleGenerateKey(algorithm, extractable, usages, d) ==
    IF algorithm.name # "ECDH" \/ algorithm.namedCurve # "P-256"
    THEN Err("NotSupportedError")
    ELSE IF usages \ {"deriveKey", "deriveBits"} # {}
    THEN Err("SyntaxError")
    ELSE Ok([privateKey |-> [type |-> "private", algorithm |-> "ECDH",
                             namedCurve |-> "P-256", extractable |-> extractable,
                             usages |-> usages, d |-> d],
             publicKey  |-> [type |-> "public", algorithm |-> "ECDH",
                             namedCurve |-> "P-256", extractable |-> TRUE,
                             usages |-> {}, q |-> ModExp(P256.g, d, P256.p)]])

\* length: 256 of the derived AES-GCM key, in bits
AesKeyLength == 256

\* The raw bytes of a derived key: the shared secret as a big-endian integer
\* of length \div 8 bytes.
RECURSIVE BigEndian(_, _)
BigEndian(n, len) ==
    IF len = 0 THEN <<>> ELSE Append(BigEndian(n \div 256, len - 1), n % 256)

\* crypto.subtle.deriveKey({name: 'ECDH', public}, baseKey, derivedKeyType,
\* extractable, usages): the shared secret is public^d.
SubtleDeriveKey(algorithm, baseKey, derivedKeyType, extractable, usages) ==
    IF baseKey.type # "private" \/ baseKey.algorithm # algorithm.name
       \/ "deriveKey" \notin baseKey.usages
    THEN Err("InvalidAccessError")
    ELSE IF algorithm.public.type # "public"
            \/ algorithm.public.algorithm # baseKey.algorithm
            \/ algorithm.public.namedCurve # baseKey.namedCurve
    THEN Err("InvalidAccessError")
    ELSE IF derivedKeyType.name # "AES-GCM" \/ derivedKeyType.length \notin {128, 192, 256}
    THEN Err("OperationError")
    ELSE IF usages \ {"encrypt", "decrypt", "wrapKey", "unwrapKey"} # {}
    THEN Err("SyntaxError")
    ELSE Ok([type |-> "secret", algorithm |-> "AES-GCM",
             length |-> derivedKeyType.length, extractable |-> extractable,
             usages |-> usages,
             raw |-> BigEndian(ModExp(algorithm.public.q, baseKey.d, P256.p),
                               derivedKeyType.length \div 8)])

(***************************************************************************)
(* AES-GCM.  The keystream byte for position j depends on the key bytes,   *)
(* the IV and j; the ciphertext is the plaintext XOR the keystream.  The   *)
(* tag is an ideal MAC of (key bytes, iv, ciphertext).                     *)
(***************************************************************************)
RECURSIVE XorBits(_, _, _)
XorBits(a, b, n) ==
    IF n = 0 THEN 0
    ELSE ((a + b) % 2) + 2 * XorBits(a \div 2, b \div 2, n - 1)

Xor8(a, b) == XorBits(a, b, 8)

RECURSIVE WeightedSum(_)
WeightedSum(b) ==
    IF b = <<>> THEN 0 ELSE Len(b) * b[Len(b)] + WeightedSum(SubSeq(b, 1, Len(b) - 1))

KeyStream(raw, nonce, j) ==
    (13 * WeightedSum(raw) + 17 * WeightedSum(nonce) + 29 * j + 7) % 256

CtrXor(raw, nonce, bytes) ==
    [j \in 1..Len(bytes) |-> Xor8(bytes[j], KeyStream(raw, nonce, j))]

GcmTag(raw, nonce, ct) == <<raw, nonce, ct>>

\* crypto.subtle.encrypt({name: 'AES-GCM', iv}, key, data): ciphertext and tag
SubtleEncrypt(algorithm, key, bytes) ==
    IF key.algorithm # algorithm.name \/ "encrypt" \notin key.usages
    THEN Err("InvalidAccessError")
    ELSE LET ct == CtrXor(key.raw, algorithm.iv, bytes)
         IN Ok([ct |-> ct, tag |-> GcmTag(key.raw, algorithm.iv, ct)])

\* crypto.subtle.decrypt({name: 'AES-GCM', iv}, key, data): the plaintext, or
\* OperationError when the tag does not authenticate (key, iv, ciphertext)
SubtleDecrypt(algorithm, key, buf) ==
    IF key.algorithm # algorithm.name \/ "decrypt" \notin key.usages
    THEN Err("InvalidAccessError")
    ELSE IF buf.tag # GcmTag(key.raw, algorithm.iv, buf.ct)
    THEN Err("OperationError")
    ELSE Ok(CtrXor(key.raw, algorithm.iv, buf.ct))

\* crypto.subtle.exportKey('raw', key)
SubtleExportKey(format, key) ==
    IF ~key.extractable THEN Err("InvalidAccessError")
    ELSE IF format # "raw" \/ key.type # "secret" THEN Err("NotSupportedError")
    ELSE Ok(key.raw)

(***************************************************************************)
(* String.fromCharCode(...bytes) and btoa.                                 *)
(***************************************************************************)
StringFromCharCode(codes) == [i \in 1..Len(codes) |-> codes[i] % 65536]

Base64Alphabet ==
    <<"A", "B", "C", "D", "E", "F", "G", "H", "I", "J", "K", "L", "M",
      "N", "O", "P", "Q", "R", "S", "T", "U", "V", "W", "X", "Y", "Z",
      "a", "b", "c", "d", "e", "f", "g", "h", "i", "j", "k", "l", "m",
      "n", "o", "p", "q", "r", "s", "t", "u", "v", "w", "x", "y", "z",
      "0", "1", "2", "3", "4", "5", "6", "7", "8", "9", "+", "/">>

B64(n) == Base64Alphabet[n + 1]

RECURSIVE Base64Encode(_)
Base64Encode(b) ==
    IF Len(b) = 0 THEN <<>>
    ELSE IF Len(b) = 1
    THEN <<B64(b[1] \div 4), B64((b[1] % 4) * 16), "=", "=">>
    ELSE IF Len(b) = 2
    THEN <<B64(b[1] \div 4), B64((b[1] % 4) * 16 + (b[2] \div 16)),
           B64((b[2] % 16) * 4), "=">>
    ELSE <<B64(b[1] \div 4), B64((b[1] % 4) * 16 + (b[2] \div 16)),
           B64((b[2] % 16) * 4 + (b[3] \div 64)), B64(b[3] % 64)>>
             \o Base64Encode(SubSeqFrom(b, 4))

\* btoa throws InvalidCharacterError on a character above U+00FF
btoa(str) ==
    IF \E i \in 1..Len(str) : str[i] > 255 THEN Err("InvalidCharacterError")
    ELSE Ok(Base64Encode(str))

(***************************************************************************)
(* The script's functions.                                                 *)
(***************************************************************************)
driveSymmetricKey(privateKey, publicKey) ==
    SubtleDeriveKey([name |-> "ECDH", public |-> publicKey], privateKey,
                    [name |-> "AES-GCM", length |-> AesKeyLength], TRUE,
                    {"encrypt", "decrypt"})

encryptMessage(key, nonce, msg) ==
    SubtleEncrypt([name |-> "AES-GCM", iv |-> nonce], key, encoder_encode(msg))


\* Variant: the decoder is handed the function's argument, not the decrypted
\* bytes.
decryptMessage_DecodesCiphertext(key, nonce, buf) ==
    LET decryptedData == SubtleDecrypt([name |-> "AES-GCM", iv |-> nonce], key, buf)
    IN IF decryptedData.ok THEN Ok(decoder_decode(buf.ct)) ELSE decryptedData

\* Variant: the algorithm named is the unauthenticated counter mode, which
\* checks no tag.
decryptMessage_AesCtr(key, nonce, buf) ==
    Ok(decoder_decode(CtrXor(key.raw, nonce, buf.ct)))

\* Variant: the rejection is caught and an empty string returned.
decryptMessage_CatchAll(key, nonce, buf) ==
    LET decryptedData == SubtleDecrypt([name |-> "AES-GCM", iv |-> nonce], key, buf)
    IN IF decryptedData.ok THEN Ok(decoder_decode(decryptedData.value))
       ELSE Ok(<<>>)

decryptMessage(key, nonce, buf) ==
    LET decryptedData == SubtleDecrypt([name |-> "AES-GCM", iv |-> nonce], key, buf)
    IN IF decryptedData.ok THEN Ok(decoder_decode(decryptedData.value))
       ELSE decryptedData


\* Variant: the key is exported as a JWK, whose key_ops member lists the
\* usages, and that export is what is encoded.
getBase64Key_Jwk(key) ==
    LET buffer == SubtleExportKey("raw", key)
    IN IF buffer.ok
       THEN btoa(StringFromCharCode(buffer.value \o <<Cardinality(key.usages)>>))
       ELSE buffer

getBase64Key(key) ==
    LET buffer == SubtleExportKey("raw", key)
    IN IF buffer.ok THEN btoa(StringFromCharCode(buffer.value)) ELSE buffer

(***************************************************************************)
(* The run.  pc names the statement to execute next.                       *)
(***************************************************************************)
\* new Uint8Array(12)
IvLength == 12

\* crypto.getRandomValues(new Uint8Array(len)): the values the random source
\* may return (the first and the last byte vary)
RandomValues(len) ==
    { [i \in 1..len |-> IF i = 1 THEN a ELSE IF i = len THEN b ELSE 0] :
        a \in 0..MaxIvByte, b \in 0..MaxIvByte }

\* the algorithm argument of both generateKey calls
EcdhKeyGenParams == [name |-> "ECDH", hash |-> [name |-> "SHA-256"], namedCurve |-> "P-256"]

\* an awaited provider promise: it settles to the operation's result, or the
\* provider rejects it
Await(r, rejected) == IF rejected THEN Err("OperationError") ELSE r

\* an uncaught rejection at a top-level await ends the run
Throw(e) == pc' = "failed" /\ uncaught' = Some(e)

\* the history of provider calls: the operation, its arguments, whether its
\* promise was fulfilled, and how many console lines had been printed
Call(op, args, ok) ==
    calls' = Append(calls, [op |-> op, args |-> args, ok |-> ok,
                            printed |-> Len(stdout)])

HarnessIdle == [pc |-> "idle"]

Init ==
    /\ pc = "genAlice"
    /\ AliceKey = <<>>
    /\ BobKey = <<>>
    /\ AliceSymmetricKey = <<>>
    /\ BobSymmetricKey = <<>>
    /\ iv = <<>>
    /\ encryptedData = <<>>
    /\ decryptedText = <<>>
    /\ stdout = <<>>
    /\ calls = <<>>
    /\ uncaught = <<>>
    /\ h = HarnessIdle

\* const AliceKey = await crypto.subtle.generateKey(...)
GenAlice ==
    /\ pc = "genAlice"
    /\ \E d \in PrivateScalars, rejected \in BOOLEAN :
         LET r == Await(SubtleGenerateKey(EcdhKeyGenParams, TRUE, {"deriveKey"}, d), rejected)
         IN /\ Call("generateKey", <<"Alice">>, r.ok)
            /\ IF r.ok
               THEN AliceKey' = Some(r.value) /\ pc' = "genBob" /\ UNCHANGED uncaught
               ELSE Throw(r.error) /\ UNCHANGED AliceKey
    /\ UNCHANGED <<BobKey, AliceSymmetricKey, BobSymmetricKey, iv, encryptedData,
                   decryptedText, stdout, h>>

\* const BobKey = await crypto.subtle.generateKey(...)
GenBob ==
    /\ pc = "genBob"
    /\ \E d \in PrivateScalars, rejected \in BOOLEAN :
         LET r == Await(SubtleGenerateKey(EcdhKeyGenParams, TRUE, {"deriveKey"}, d), rejected)
         IN /\ Call("generateKey", <<"Bob">>, r.ok)
            /\ IF r.ok
               THEN BobKey' = Some(r.value) /\ pc' = "deriveAlice" /\ UNCHANGED uncaught
               ELSE Throw(r.error) /\ UNCHANGED BobKey
    /\ UNCHANGED <<AliceKey, AliceSymmetricKey, BobSymmetricKey, iv, encryptedData,
                   decryptedText, stdout, h>>

\* const AliceSymmetricKey = await driveSymmetricKey(AliceKey.privateKey, BobKey.publicKey)
DeriveAlice ==
    /\ pc = "deriveAlice"
    /\ \E rejected \in BOOLEAN :
         LET r == Await(driveSymmetricKey(Get(AliceKey).privateKey, Get(BobKey).publicKey),
                        rejected)
         IN /\ Call("deriveKey", <<Get(AliceKey).privateKey, Get(BobKey).publicKey>>, r.ok)
            /\ IF r.ok
               THEN AliceSymmetricKey' = Some(r.value) /\ pc' = "logAlice"
                    /\ UNCHANGED uncaught
               ELSE Throw(r.error) /\ UNCHANGED AliceSymmetricKey
    /\ UNCHANGED <<AliceKey, BobKey, BobSymmetricKey, iv, encryptedData,
                   decryptedText, stdout, h>>


\* Variant: the rejection is caught, reported on the console, and the run
\* goes on.
LogAlice_CatchAndContinue ==
    /\ pc = "logAlice"
    /\ \E rejected \in BOOLEAN :
         LET r == Await(getBase64Key(Get(AliceSymmetricKey)), rejected)
         IN /\ Call("exportKey", <<Get(AliceSymmetricKey)>>, r.ok)
            /\ stdout' = Append(stdout, <<"Alice's symmetric key:",
                                          IF r.ok THEN r.value ELSE <<>> >>)
            /\ pc' = "deriveBob" /\ UNCHANGED uncaught
    /\ UNCHANGED <<AliceKey, BobKey, AliceSymmetricKey, BobSymmetricKey, iv,
                   encryptedData, decryptedText, h>>

\* console.log("Alice's symmetric key:", await getBase64Key(AliceSymmetricKey))
LogAlice ==
    /\ pc = "logAlice"
    /\ \E rejected \in BOOLEAN :
         LET r == Await(getBase64Key(Get(AliceSymmetricKey)), rejected)
         IN /\ Call("exportKey", <<Get(AliceSymmetricKey)>>, r.ok)
            /\ IF r.ok
               THEN stdout' = Append(stdout, <<"Alice's symmetric key:", r.value>>)
                    /\ pc' = "deriveBob" /\ UNCHANGED uncaught
               ELSE Throw(r.error) /\ UNCHANGED stdout
    /\ UNCHANGED <<AliceKey, BobKey, AliceSymmetricKey, BobSymmetricKey, iv,
                   encryptedData, decryptedText, h>>


\* Variant: Bob's key is derived with Bob's own public key.
DeriveBob_OwnPublic ==
    /\ pc = "deriveBob"
    /\ \E rejected \in BOOLEAN :
         LET r == Await(driveSymmetricKey(Get(BobKey).privateKey, Get(BobKey).publicKey),
                        rejected)
         IN /\ Call("deriveKey", <<Get(BobKey).privateKey, Get(BobKey).publicKey>>, r.ok)
            /\ IF r.ok
               THEN BobSymmetricKey' = Some(r.value) /\ pc' = "logBob"
                    /\ UNCHANGED uncaught
               ELSE Throw(r.error) /\ UNCHANGED BobSymmetricKey
    /\ UNCHANGED <<AliceKey, BobKey, AliceSymmetricKey, iv, encryptedData,
                   decryptedText, stdout, h>>

\* const BobSymmetricKey = await driveSymmetricKey(BobKey.privateKey, AliceKey.publicKey)
DeriveBob ==
    /\ pc = "deriveBob"
    /\ \E rejected \in BOOLEAN :
         LET r == Await(driveSymmetricKey(Get(BobKey).privateKey, Get(AliceKey).publicKey),
                        rejected)
         IN /\ Call("deriveKey", <<Get(BobKey).privateKey, Get(AliceKey).publicKey>>, r.ok)
            /\ IF r.ok
               THEN BobSymmetricKey' = Some(r.value) /\ pc' = "logBob"
                    /\ UNCHANGED uncaught
               ELSE Throw(r.error) /\ UNCHANGED BobSymmetricKey
    /\ UNCHANGED <<AliceKey, BobKey, AliceSymmetricKey, iv, encryptedData,
                   decryptedText, stdout, h>>

\* console.log("Bob's symmetric key:", await getBase64Key(BobSymmetricKey))
LogBob ==
    /\ pc = "logBob"
    /\ \E rejected \in BOOLEAN :
         LET r == Await(getBase64Key(Get(BobSymmetricKey)), rejected)
         IN /\ Call("exportKey", <<Get(BobSymmetricKey)>>, r.ok)
            /\ IF r.ok
               THEN stdout' = Append(stdout, <<"Bob's symmetric key:", r.value>>)
                    /\ pc' = "genIv" /\ UNCHANGED uncaught
               ELSE Throw(r.error) /\ UNCHANGED stdout
    /\ UNCHANGED <<AliceKey, BobKey, AliceSymmetricKey, BobSymmetricKey, iv,
                   encryptedData, decryptedText, h>>

\* const iv = crypto.getRandomValues(new Uint8Array(12))
GenIv ==
    /\ pc = "genIv"
    /\ \E v \in RandomValues(IvLength) : iv' = Some(v)
    /\ Call("getRandomValues", <<IvLength>>, TRUE)
    /\ pc' = "encrypt"
    /\ UNCHANGED <<AliceKey, BobKey, AliceSymmetricKey, BobSymmetricKey,
                   encryptedData, decryptedText, stdout, uncaught, h>>


\* Variant: the IV buffer is zeroed (iv.fill(0)) once the message is encrypted.
Encrypt_ClearsIv ==
    /\ pc = "encrypt"
    /\ \E rejected \in BOOLEAN :
         LET r == Await(encryptMessage(Get(AliceSymmetricKey), Get(iv), data), rejected)
         IN /\ Call("encrypt", <<Get(AliceSymmetricKey), Get(iv), data>>, r.ok)
            /\ IF r.ok
               THEN encryptedData' = Some(r.value) /\ pc' = "logEncrypted"
                    /\ iv' = Some([i \in 1..IvLength |-> 0])
                    /\ UNCHANGED uncaught
               ELSE Throw(r.error) /\ UNCHANGED <<encryptedData, iv>>
    /\ UNCHANGED <<AliceKey, BobKey, AliceSymmetricKey, BobSymmetricKey,
                   decryptedText, stdout, h>>

\* const encryptedData = await encryptMessage(AliceSymmetricKey, iv, data)
Encrypt ==
    /\ pc = "encrypt"
    /\ \E rejected \in BOOLEAN :
         LET r == Await(encryptMessage(Get(AliceSymmetricKey), Get(iv), data), rejected)
         IN /\ Call("encrypt", <<Get(AliceSymmetricKey), Get(iv), data>>, r.ok)
            /\ IF r.ok
               THEN encryptedData' = Some(r.value) /\ pc' = "logEncrypted"
                    /\ UNCHANGED uncaught
               ELSE Throw(r.error) /\ UNCHANGED encryptedData
    /\ UNCHANGED <<AliceKey, BobKey, AliceSymmetricKey, BobSymmetricKey, iv,
                   decryptedText, stdout, h>>

\* console.log('Encrypted Data:', new Uint8Array(encryptedData))
LogEncrypted ==
    /\ pc = "logEncrypted"
    /\ stdout' = Append(stdout, <<"Encrypted Data:", Get(encryptedData)>>)
    /\ pc' = "decrypt"
    /\ UNCHANGED <<AliceKey, BobKey, AliceSymmetricKey, BobSymmetricKey, iv,
                   encryptedData, decryptedText, calls, uncaught, h>>


\* Variant: the decryption is given an IV of its own, freshly drawn.
Decrypt_FreshIv ==
    /\ pc = "decrypt"
    /\ \E rejected \in BOOLEAN, fresh \in RandomValues(IvLength) :
         LET r == Await(decryptMessage(Get(BobSymmetricKey), fresh, Get(encryptedData)),
                        rejected)
         IN /\ Call("decrypt", <<Get(BobSymmetricKey), fresh, Get(encryptedData)>>, r.ok)
            /\ IF r.ok
               THEN decryptedText' = Some(r.value) /\ pc' = "logVerification"
                    /\ UNCHANGED uncaught
               ELSE Throw(r.error) /\ UNCHANGED decryptedText
    /\ UNCHANGED <<AliceKey, BobKey, AliceSymmetricKey, BobSymmetricKey, iv,
                   encryptedData, stdout, h>>

\* const decryptedText = await decryptMessage(BobSymmetricKey, iv, encryptedData)
Decrypt ==
    /\ pc = "decrypt"
    /\ \E rejected \in BOOLEAN :
         LET r == Await(decryptMessage(Get(BobSymmetricKey), Get(iv), Get(encryptedData)),
                        rejected)
         IN /\ Call("decrypt", <<Get(BobSymmetricKey), Get(iv), Get(encryptedData)>>, r.ok)
            /\ IF r.ok
               THEN decryptedText' = Some(r.value) /\ pc' = "logVerification"
                    /\ UNCHANGED uncaught
               ELSE Throw(r.error) /\ UNCHANGED decryptedText
    /\ UNCHANGED <<AliceKey, BobKey, AliceSymmetricKey, BobSymmetricKey, iv,
                   encryptedData, stdout, h>>

\* console.log('Verification of Decrypted Text:', decryptedText === data)
LogVerification ==
    /\ pc = "logVerification"
    /\ stdout' = Append(stdout, <<"Verification of Decrypted Text:",
                                  Get(decryptedText) = data>>)
    /\ pc' = "done"
    /\ UNCHANGED <<AliceKey, BobKey, AliceSymmetricKey, BobSymmetricKey, iv,
                   encryptedData, decryptedText, calls, uncaught, h>>

Next ==
    \/ GenAlice
    \/ GenBob
    \/ DeriveAlice
    \/ LogAlice
    \/ DeriveBob
    \/ LogBob
    \/ GenIv
    \/ Encrypt
    \/ LogEncrypted
    \/ Decrypt
    \/ LogVerification

Spec == Init /\ [][Next]_vars

(***************************************************************************)
(* The functions on their own: encryptMessage, decryptMessage and          *)
(* getBase64Key applied to arguments drawn from bounded sets.  h is the    *)
(* record of one such application.                                         *)
(***************************************************************************)
\* UTF-16 code units a plaintext is made of: 'H', U+FEFF, and the two halves
\* of the surrogate pair of U+1F600
CodeUnits == {72, 65279, 55357, 56832}

RECURSIVE SeqsUpTo(_, _)
SeqsUpTo(S, n) ==
    IF n = 0 THEN {<<>>}
    ELSE LET shorter == SeqsUpTo(S, n - 1)
         IN shorter \cup { Append(t, x) : t \in shorter, x \in S }

Plaintexts == SeqsUpTo(CodeUnits, MaxLen)

\* the key pair generateKey returns for the scalar d
KeyPairOf(d) == SubtleGenerateKey(EcdhKeyGenParams, TRUE, {"deriveKey"}, d).value

\* secret keys of the same algorithm with other usages, as deriveKey makes them
KeyObjects ==
    { SubtleDeriveKey([name |-> "ECDH", public |-> KeyPairOf(b).publicKey],
                      KeyPairOf(a).privateKey,
                      [name |-> "AES-GCM", length |-> AesKeyLength], TRUE, u).value :
        a \in PrivateScalars, b \in PrivateScalars,
        u \in {{"encrypt", "decrypt"}, {"decrypt"}} }

InitFn == Init

\* encryptMessage(K, iv, P) with K derived from (own private, peer public)
CallEncryptMessage ==
    /\ h.pc = "idle"
    /\ \E own \in PrivateScalars, peer \in PrivateScalars,
          nonce \in RandomValues(IvLength), P \in Plaintexts :
         LET K == driveSymmetricKey(KeyPairOf(own).privateKey,
                                    KeyPairOf(peer).publicKey).value
         IN h' = [pc |-> "encrypted", own |-> own, peer |-> peer, K |-> K,
                  iv |-> nonce, P |-> P, enc |-> encryptMessage(K, nonce, P)]
    /\ UNCHANGED <<pc, AliceKey, BobKey, AliceSymmetricKey, BobSymmetricKey, iv,
                   encryptedData, decryptedText, stdout, calls, uncaught>>

\* decryptMessage(K2, iv2, ciphertext) with K2 derived from (third private,
\* peer public); third = own gives the key that encrypted
CallDecryptMessage ==
    /\ h.pc = "encrypted"
    /\ h.enc.ok
    /\ \E third \in PrivateScalars, nonce \in RandomValues(IvLength) :
         LET K2 == driveSymmetricKey(KeyPairOf(third).privateKey,
                                     KeyPairOf(h.peer).publicKey).value
         IN h' = [pc |-> "decrypted", own |-> h.own, peer |-> h.peer, K |-> h.K,
                  iv |-> h.iv, P |-> h.P, enc |-> h.enc, third |-> third,
                  K2 |-> K2, iv2 |-> nonce,
                  dec |-> decryptMessage(K2, nonce, h.enc.value)]
    /\ UNCHANGED <<pc, AliceKey, BobKey, AliceSymmetricKey, BobSymmetricKey, iv,
                   encryptedData, decryptedText, stdout, calls, uncaught>>

\* getBase64Key(k1) and getBase64Key(k2)
CallGetBase64Key ==
    /\ h.pc = "idle"
    /\ \E k1 \in KeyObjects, k2 \in KeyObjects :
         h' = [pc |-> "exported", k1 |-> k1, k2 |-> k2,
               b1 |-> getBase64Key(k1), b2 |-> getBase64Key(k2)]
    /\ UNCHANGED <<pc, AliceKey, BobKey, AliceSymmetricKey, BobSymmetricKey, iv,
                   encryptedData, decryptedText, stdout, calls, uncaught>>

NextFn ==
    \/ CallEncryptMessage
    \/ CallDecryptMessage
    \/ CallGetBase64Key

SpecFn == InitFn /\ [][NextFn]_vars

(***************************************************************************)
(* Properties.                                                             *)
(***************************************************************************)
Printed(label) == { i \in DOMAIN stdout : stdout[i][1] = label }
CallsOf(op) == { i \in DOMAIN calls : calls[i].op = op }
FulfilledBefore(op, i) == { j \in 1..(i - 1) : calls[j].op = op /\ calls[j].ok }

\* C1: decryptMessage(K, iv, encryptMessage(K, iv, P)) succeeds and returns
\* exactly P, for any plaintext P, key K and IV.
C1_RoundTripReturnsPlaintext ==
    (h.pc = "decrypted" /\ h.K2 = h.K /\ h.iv2 = h.iv)
        => (h.dec.ok /\ h.dec.value = h.P)

\* A string is well formed when every surrogate is half of a pair.
RECURSIVE IsWellFormed(_)
IsWellFormed(s) ==
    IF s = <<>> THEN TRUE
    ELSE IF IsHighSurrogate(s[1])
    THEN Len(s) >= 2 /\ IsLowSurrogate(s[2]) /\ IsWellFormed(Tail(Tail(s)))
    ELSE ~IsLowSurrogate(s[1]) /\ IsWellFormed(Tail(s))

\* The round trip does return P when P is well formed and does not start
\* with U+FEFF; those two are the only ways it is lost.
RoundTripOfPlainText ==
    (h.pc = "decrypted" /\ h.K2 = h.K /\ h.iv2 = h.iv)
        => /\ h.dec.ok
           /\ (h.dec.value = h.P) <=> (IsWellFormed(h.P) /\ (h.P = <<>> \/ h.P[1] # 65279))

\* C2: the keys derived from (Alice's private, Bob's public) and from (Bob's
\* private, Alice's public) have identical raw bytes, and the two base64
\* strings printed for Alice and Bob are equal.
C2_DerivedKeysAgree ==
    /\ (IsSet(AliceSymmetricKey) /\ IsSet(BobSymmetricKey))
           => Get(AliceSymmetricKey).raw = Get(BobSymmetricKey).raw
    /\ \A i \in Printed("Alice's symmetric key:"), j \in Printed("Bob's symmetric key:") :
           stdout[i][2] = stdout[j][2]

C2_Witness ==
    /\ Printed("Alice's symmetric key:") # {}
    /\ Printed("Bob's symmetric key:") # {}
    /\ Get(AliceKey).privateKey.d # Get(BobKey).privateKey.d

\* C3: a run that completes has recovered, under Bob's derived key and the
\* same IV, a string equal to data, and has printed the verification value
\* true as its last line.
C3_CompletedRunVerifies ==
    pc = "done" =>
        /\ Get(decryptedText) = data
        /\ stdout # <<>>
        /\ stdout[Len(stdout)][1] = "Verification of Decrypted Text:"
        /\ stdout[Len(stdout)][2] = TRUE

C3_Witness ==
    /\ pc = "done"
    /\ Get(AliceKey) # Get(BobKey)
    /\ Get(encryptedData).ct # encoder_encode(data)

\* C4: decrypting a ciphertext under the key that encrypted it but with a
\* different IV fails with the provider's authentication error
\* (OperationError); decryptMessage returns no string.
C4_WrongIvFails ==
    (h.pc = "decrypted" /\ h.K2.raw = h.K.raw /\ h.iv2 # h.iv)
        => (~h.dec.ok /\ h.dec.error = "OperationError")

C4_Witness ==
    /\ h.pc = "decrypted"
    /\ h.K2.raw = h.K.raw
    /\ h.iv2 # h.iv
    /\ h.P # <<>>
    /\ ~h.dec.ok

\* C5: decrypting a ciphertext under a symmetric key other than the one that
\* encrypted it (such as one derived with a third party's key pair) fails
\* with the provider's authentication error and returns no plaintext.
C5_WrongKeyFails ==
    (h.pc = "decrypted" /\ h.K2.raw # h.K.raw)
        => (~h.dec.ok /\ h.dec.error = "OperationError")

C5_Witness ==
    /\ h.pc = "decrypted"
    /\ h.third # h.own
    /\ h.K2.raw # h.K.raw
    /\ h.iv2 = h.iv
    /\ ~h.dec.ok

\* C6: a provider call that fails ends the run at once: it is the last call
\* made, the run is in its failed state with the error uncaught, no console
\* line was printed after the call was made, and no operation is called more
\* often than the script calls it (nothing is retried).
C6_FailureIsFatal ==
    /\ \A i \in DOMAIN calls :
           ~calls[i].ok => /\ i = Len(calls)
                           /\ pc = "failed"
                           /\ IsSet(uncaught)
                           /\ Len(stdout) = calls[i].printed
    /\ pc = "failed" => (calls # <<>> /\ ~calls[Len(calls)].ok)
    /\ Cardinality(CallsOf("generateKey")) <= 2
    /\ Cardinality(CallsOf("deriveKey")) <= 2
    /\ Cardinality(CallsOf("exportKey")) <= 2
    /\ Cardinality(CallsOf("getRandomValues")) <= 1
    /\ Cardinality(CallsOf("encrypt")) <= 1
    /\ Cardinality(CallsOf("decrypt")) <= 1

C6_Witness ==
    /\ pc = "failed"
    /\ calls[Len(calls)].op = "exportKey"
    /\ ~calls[Len(calls)].ok
    /\ Len(stdout) = 0

\* C7: the steps are strictly sequential: both key pairs have been generated
\* before either derivation is called, both keys derived before encryption
\* or decryption is called, the IV drawn before the encryption, the
\* encryption fulfilled before the decryption is called, and the decryption
\* is passed the very IV and the very ciphertext of the encryption.
C7_StrictlySequential ==
    /\ \A i \in CallsOf("deriveKey") :
           /\ Cardinality(FulfilledBefore("generateKey", i)) = 2
           /\ IsSet(AliceKey) /\ IsSet(BobKey)
    /\ \A i \in CallsOf("encrypt") \cup CallsOf("decrypt") :
           /\ Cardinality(FulfilledBefore("deriveKey", i)) = 2
           /\ IsSet(AliceSymmetricKey) /\ IsSet(BobSymmetricKey)
    /\ \A i \in CallsOf("encrypt") :
           /\ FulfilledBefore("getRandomValues", i) # {}
           /\ calls[i].args[2] = Get(iv)
    /\ \A i \in CallsOf("decrypt") :
           \E j \in FulfilledBefore("encrypt", i) :
               /\ calls[i].args[2] = calls[j].args[2]
               /\ calls[i].args[2] = Get(iv)
               /\ calls[i].args[3] = Get(encryptedData)

C7_Witness ==
    /\ pc = "logVerification"
    /\ CallsOf("decrypt") # {}
    /\ IsSet(decryptedText)

\* C8: getBase64Key's string depends only on the key's exported raw bytes:
\* two keys with the same raw bytes give the same base64 string.
C8_Base64DependsOnlyOnBytes ==
    (h.pc = "exported" /\ h.k1.raw = h.k2.raw)
        => (h.b1.ok /\ h.b2.ok /\ h.b1.value = h.b2.value)

C8_Witness ==
    /\ h.pc = "exported"
    /\ h.k1 # h.k2
    /\ h.k1.raw = h.k2.raw
    /\ h.b1.ok
    /\ Len(h.b1.value) = 44

\* C9: each key pair is generated once, its private key is an argument of one
\* derivation and its public key of the other and of no other call, and once
\* set neither key pair, neither derived key nor the IV is changed by any
\* later step.
C9_UsedByDerivationOnly ==
    /\ \A i \in CallsOf("generateKey"), j \in CallsOf("generateKey") :
           calls[i].args = calls[j].args => i = j
    /\ \A i \in CallsOf("deriveKey") :
           \/ /\ FulfilledBefore("deriveKey", i) = {}
              /\ calls[i].args = <<Get(AliceKey).privateKey, Get(BobKey).publicKey>>
           \/ /\ Cardinality(FulfilledBefore("deriveKey", i)) = 1
              /\ calls[i].args = <<Get(BobKey).privateKey, Get(AliceKey).publicKey>>
    /\ \A i \in CallsOf("exportKey") \cup CallsOf("encrypt") \cup CallsOf("decrypt") :
           calls[i].args[1].type = "secret"

C9_Frame ==
    /\ IsSet(AliceKey) => AliceKey' = AliceKey
    /\ IsSet(BobKey) => BobKey' = BobKey
    /\ IsSet(AliceSymmetricKey) => AliceSymmetricKey' = AliceSymmetricKey
    /\ IsSet(BobSymmetricKey) => BobSymmetricKey' = BobSymmetricKey
    /\ IsSet(iv) => iv' = iv

C9_KeysGeneratedOnceNeverMutated == []C9_UsedByDerivationOnly /\ [][C9_Frame]_vars

C9_Witness ==
    /\ pc = "done"
    /\ Cardinality(CallsOf("deriveKey")) = 2
    /\ Cardinality(CallsOf("exportKey")) = 2
    /\ IsSet(iv)

\* C10: the line 'Verification of Decrypted Text:' is never printed with the
\* value false: a run either prints it with true or ends without printing it.
C10_NeverPrintsFalse ==
    /\ \A i \in Printed("Verification of Decrypted Text:") : stdout[i][2] = TRUE
    /\ pc = "failed" => Printed("Verification of Decrypted Text:") = {}

C10_Witness ==
    /\ pc = "failed"
    /\ calls[Len(calls)].op = "decrypt"
    /\ Printed("Verification of Decrypted Text:") = {}
    /\ Len(stdout) = 3

====
